---- MODULE Spec2Model ----
(***************************************************************************)
(* Model of scorecard-generator.js (Modified Redpoint Competition          *)
(* Scorecard Generator, a Google Apps Script bound to a spreadsheet).      *)
(*                                                                         *)
(* JavaScript strings are modelled as sequences of one-character strings,  *)
(* so that trim, split, parseInt, endsWith and the digit regular           *)
(* expression are computed and not assumed.  A spreadsheet cell is such a  *)
(* string; the empty cell is the empty sequence.                           *)
(***************************************************************************)
EXTENDS Integers, Sequences, FiniteSets, TLC

VARIABLES
    pc,             \* position of the running function
    catA, catB,     \* arguments of compareCategoriesRedpoint
    cmpResult,      \* its return value
    regData,        \* parseClimberData: the values of the Registration sheet
    parseI,         \* parseClimberData: the row index i of its loop (1-based)
    parsed,         \* parseClimberData: the lists climbers and skippedClimbers
    climbers,       \* createRedpointScorecards: the sorted valid climbers
    climbAssignments, \* the category -> climbs table
    config,         \* eventName, numClimbs, numAttempts, eventType, scoringNotes
    layI,           \* the loop index i (1-based)
    currentRow,     \* the row cursor
    successfulCards, \* the card counter
    laySkipped,     \* the function's skippedClimbers
    grid,           \* the cells of the Queue Cards sheet that hold a value
    cards,          \* history: one record per card laid out
    failLog,        \* history: the failure injected at each climber, in order
    sheets,         \* the spreadsheet: sheet name -> contents
    sessionsTodo,   \* createCheckInLists: the sorted sessions still to write
    rosterLog,      \* history: the sessions whose roster was written, in order
    sheetsAtStart,  \* history: the spreadsheet when generateScorecards began
    alert,          \* the message shown to the operator by the last run
    runs            \* the number of finished runs of generateScorecards

cmpVars == <<catA, catB, cmpResult>>
parseVars == <<regData, parseI, parsed>>
layInputs == <<climbers, climbAssignments, config>>
layVars == <<layI, currentRow, successfulCards, laySkipped, grid, cards, failLog>>
rosterVars == <<sessionsTodo, rosterLog>>
runVars == <<sheetsAtStart, alert, runs>>
vars == <<pc, cmpVars, parseVars, layInputs, layVars, sheets, rosterVars, runVars>>

----------------------------------------------------------------------------
(* JavaScript primitives                                                   *)

DigitChars == <<"0", "1", "2", "3", "4", "5", "6", "7", "8", "9">>

IsDigit(c) == \E k \in 1..10 : DigitChars[k] = c

DigitVal(c) == (CHOOSE k \in 1..10 : DigitChars[k] = c) - 1

IsSpace(c) == c = " "

\* A number as parseInt returns it: NaN, or an integer.
NaN == [nan |-> TRUE, val |-> 0]

Num(n) == [nan |-> FALSE, val |-> n]

\* String.prototype.substring(from) with a 0-based index.
Substring(s, from) == IF from >= Len(s) THEN <<>> ELSE SubSeq(s, from + 1, Len(s))

SetMin(S) == CHOOSE x \in S : \A y \in S : x <= y

SetMax(S) == CHOOSE x \in S : \A y \in S : x >= y

\* The positions of s that hold no white space.
InkPositions(s) == {k \in 1..Len(s) : ~IsSpace(s[k])}

\* s from its first position in ink to its last position in to.
InkFrom(s, ink, to) == IF ink = {} THEN <<>> ELSE SubSeq(s, SetMin(ink), to)

TrimStart(s) == InkFrom(s, InkPositions(s), Len(s))

\* String.prototype.trim
TrimEnd(s, ink) == IF ink = {} THEN <<>> ELSE SubSeq(s, 1, SetMax(ink))

Trim(s) == TrimStart(TrimEnd(s, InkPositions(s)))

\* s up to the first of the positions stops, all of s when there is none.
Before(s, stops) == IF stops = {} THEN s ELSE SubSeq(s, 1, SetMin(stops) - 1)

\* The longest prefix of s made of decimal digits.
DigitPrefix(s) == Before(s, {k \in 1..Len(s) : ~IsDigit(s[k])})

RECURSIVE DigitsValue(_, _)
DigitsValue(ds, acc) ==
    IF ds = <<>> THEN acc ELSE DigitsValue(Tail(ds), acc * 10 + DigitVal(Head(ds)))

\* parseInt(string): leading white space is skipped, an optional sign is read,
\* then the longest run of decimal digits; NaN when there is none.
Signed(neg, ds) ==
    IF ds = <<>> THEN NaN
    ELSE Num(IF neg THEN 0 - DigitsValue(ds, 0) ELSE DigitsValue(ds, 0))

ParseTrimmed(t) ==
    Signed(t # <<>> /\ Head(t) = "-",
           DigitPrefix(IF t # <<>> /\ Head(t) \in {"-", "+"} THEN Tail(t) ELSE t))

ParseInt(s) == ParseTrimmed(TrimStart(s))

\* (x || 0) for a number x: NaN and 0 are falsy.
OrZero(x) == IF x.nan THEN 0 ELSE x.val

----------------------------------------------------------------------------
(* compareCategoriesRedpoint                                               *)

\* genderOrder[gender] || 3 : the lookup of 'F' yields 0, which is falsy.
GenderRankBy(order, gender) ==
    LET found == gender \in DOMAIN order
    IN  IF found /\ order[gender] # 0 THEN order[gender] ELSE 3

genderOrder == [g \in {"F", "M", "U"} |-> CASE g = "F" -> 0 [] g = "M" -> 1 [] g = "U" -> 2]

\* cat.charAt(0): the empty string when cat is empty.
CharAt0(cat) == IF cat = <<>> THEN "" ELSE cat[1]

getGenderAge(cat) ==
    [gender |-> CharAt0(cat), age |-> OrZero(ParseInt(Substring(cat, 1)))]

\* if (x !== 0) return x; return y
FirstNonZero(x, y) == IF x # 0 THEN x ELSE y

CompareGenderAge(ga, gb) ==
    FirstNonZero(GenderRankBy(genderOrder, ga.gender) - GenderRankBy(genderOrder, gb.gender),
                 ga.age - gb.age)

compareCategoriesRedpoint(a, b) == CompareGenderAge(getGenderAge(a), getGenderAge(b))

----------------------------------------------------------------------------
(* Categories used as inputs                                               *)

F9  == <<"F", "9">>
F12 == <<"F", "1", "2">>
F40 == <<"F", "4", "0">>
M10 == <<"M", "1", "0">>
M12 == <<"M", "1", "2">>
M40 == <<"M", "4", "0">>
U8  == <<"U", "8">>
UOpen == <<"U">>
X5  == <<"X", "5">>
Open == <<"O", "p", "e", "n">>

Categories == {F9, F12, F40, M10, M12, M40, U8, UOpen, X5, Open, <<>>}

----------------------------------------------------------------------------
(* More string primitives                                                  *)

\* Whether sub occurs in s at 1-based position k.
OccursAt(s, sub, k) ==
    /\ k + Len(sub) - 1 <= Len(s)
    /\ \A j \in 1..Len(sub) : s[k + j - 1] = sub[j]

\* String.prototype.includes
Includes(s, sub) == \E k \in 1..(Len(s) + 1) : OccursAt(s, sub, k)

\* String.prototype.endsWith
EndsWith(s, suffix) ==
    Len(suffix) <= Len(s) /\ OccursAt(s, suffix, Len(s) - Len(suffix) + 1)

\* String.prototype.split(sep) for a one-character separator: the pieces
\* between separators, empty pieces kept.
Split(s, sep) ==
    LET seps == {k \in 1..Len(s) : s[k] = sep}
        \* the position of the j-th separator; 0 before the first piece and
        \* Len(s) + 1 after the last
        at(j) == IF j = 0 THEN 0
                 ELSE IF j > Cardinality(seps) THEN Len(s) + 1
                 ELSE CHOOSE k \in seps : Cardinality({m \in seps : m <= k}) = j
    IN  [j \in 1..(Cardinality(seps) + 1) |-> SubSeq(s, at(j - 1) + 1, at(j) - 1)]

\* string.match(/\d+/): the first run of decimal digits; <<>> stands for the
\* null of a failed match (a successful match is never empty).
MatchDigits(s) ==
    LET ds == {k \in 1..Len(s) : IsDigit(s[k])}
    IN  IF ds = {} THEN <<>> ELSE DigitPrefix(SubSeq(s, SetMin(ds), Len(s)))

\* A cell that holds a number is the mark followed by the decimal digits of
\* the number; every other cell is the string it holds.  No string of the
\* sheets begins with the mark.
NumberMark == "#"

NumberCell(digits) == <<NumberMark>> \o digits

\* typeof value === 'number'
IsNumber(value) == value # <<>> /\ Head(value) = NumberMark

\* value.toString(), and the conversion of a template literal.
toString(value) == IF IsNumber(value) THEN Tail(value) ELSE value

\* !value : the empty string and the number 0 are falsy.
Falsy(value) == value = <<>> \/ (IsNumber(value) /\ DigitsValue(Tail(value), 0) = 0)

\* array[idx] || '' with a 0-based index: out of range (and -1) is undefined.
CellOr(row, idx) ==
    IF idx >= 0 /\ idx < Len(row) /\ ~Falsy(row[idx + 1]) THEN row[idx + 1] ELSE <<>>

\* Array.prototype.indexOf, 0-based, -1 when absent.
IndexOf(row, x) ==
    IF \E k \in 1..Len(row) : row[k] = x
    THEN (CHOOSE k \in 1..Len(row) : row[k] = x /\ \A j \in 1..(k - 1) : row[j] # x) - 1
    ELSE -1

\* a.localeCompare(b) on the characters used for names: white space sorts
\* before letters, a proper prefix before its extensions.
CollationOrder == <<" ", "a", "b", "c", "d">>

CharRank(c) == CHOOSE k \in 1..Len(CollationOrder) : CollationOrder[k] = c

RECURSIVE LocaleCompare(_, _)
LocaleCompare(a, b) ==
    IF a = <<>> /\ b = <<>> THEN 0
    ELSE IF a = <<>> THEN -1
    ELSE IF b = <<>> THEN 1
    ELSE IF CharRank(Head(a)) # CharRank(Head(b)) THEN CharRank(Head(a)) - CharRank(Head(b))
    ELSE LocaleCompare(Tail(a), Tail(b))

\* The null of a category field: no cell holds it.
Null == <<"null">>

----------------------------------------------------------------------------
(* parseClimbAssignments                                                   *)

\* One row of the Climbs sheet applied to the assignments object.
AssignRow(assignments, row) ==
    LET category == CellOr(row, 0)
        climbsStr == CellOr(row, 1)
    IN  IF category = <<>> \/ climbsStr = <<>> THEN assignments
        ELSE LET pieces == Split(toString(climbsStr), ",")
                 climbs == [k \in 1..Len(pieces) |-> Trim(pieces[k])]
                 cleanCategory == Trim(toString(category))
             IN  [c \in DOMAIN assignments \cup {cleanCategory} |->
                    IF c = cleanCategory THEN climbs ELSE assignments[c]]

RECURSIVE AssignRows(_, _, _)
AssignRows(assignments, data, i) ==
    IF i > Len(data) THEN assignments
    ELSE AssignRows(AssignRow(assignments, data[i]), data, i + 1)

\* The header row is skipped; later rows of a category overwrite earlier ones.
parseClimbAssignments(data) == AssignRows(<<>>, data, 2)

\* climbAssignments[category] || []
ClimbsOf(table, category) ==
    IF category \in DOMAIN table THEN table[category] ELSE <<>>

----------------------------------------------------------------------------
(* parseClimberData                                                        *)

Semicolon == ";"

BoulderTicket == <<" ", "b", "o", "u", "l", "d", "e", "r", " ", "t", "i", "c", "k", "e", "t">>
LeadTicket    == <<" ", "l", "e", "a", "d", " ", "t", "i", "c", "k", "e", "t">>
RopeTicket    == <<" ", "r", "o", "p", "e", " ", "t", "i", "c", "k", "e", "t">>
StatusWord    == <<"s", "t", "a", "t", "u", "s">>
FirstnameCol  == <<"f", "i", "r", "s", "t", "n", "a", "m", "e">>
LastnameCol   == <<"l", "a", "s", "t", "n", "a", "m", "e">>
BibCol        == <<"b", "i", "b">>

TicketSuffixes == {BoulderTicket, LeadTicket, RopeTicket}

\* A row that arrives as one semicolon-joined string in its first cell is
\* split; any other row is taken as it is.
ResolveRow(raw) ==
    IF raw # <<>> /\ ~IsNumber(raw[1]) /\ Includes(raw[1], <<Semicolon>>)
    THEN Split(raw[1], Semicolon)
    ELSE raw

IsTicketHeader(header) ==
    /\ ~Falsy(header)
    /\ \E suf \in TicketSuffixes : EndsWith(toString(header), suf)
    /\ ~Includes(toString(header), StatusWord)

\* header.replace(/ (boulder|lead|rope) ticket$/, '')
StripTicketSuffix(header) ==
    IF \E suf \in TicketSuffixes : EndsWith(toString(header), suf)
    THEN LET suf == CHOOSE x \in TicketSuffixes : EndsWith(toString(header), x)
         IN  SubSeq(toString(header), 1, Len(toString(header)) - Len(suf))
    ELSE toString(header)

ticketColumns(headerRow) ==
    LET idxs == SelectSeq([k \in 1..Len(headerRow) |-> k],
                          LAMBDA k : IsTicketHeader(headerRow[k]))
    IN  [j \in 1..Len(idxs) |->
            [index |-> idxs[j] - 1, category |-> StripTicketSuffix(headerRow[idxs[j]])]]

\* A variant that lets the last non-blank ticket column win.
FirstTicket_Last(row, tickets) ==
    LET hit(j) == Trim(toString(CellOr(row, tickets[j].index))) # <<>>
    IN  IF \E j \in 1..Len(tickets) : hit(j)
        THEN CHOOSE j \in 1..Len(tickets) : hit(j) /\ \A k \in (j + 1)..Len(tickets) : ~hit(k)
        ELSE 0

\* The position in tickets of the first ticket column whose cell of the row
\* is neither empty nor white space; 0 when there is none.
FirstTicket(row, tickets) ==
    LET hit(j) == Trim(toString(CellOr(row, tickets[j].index))) # <<>>
    IN  IF \E j \in 1..Len(tickets) : hit(j)
        THEN CHOOSE j \in 1..Len(tickets) : hit(j) /\ \A k \in 1..(j - 1) : ~hit(k)
        ELSE 0

\* The body of the row loop: the two result lists after one data row.
ParseRow(acc, headerRow, raw) ==
    LET row == ResolveRow(raw)
        firstname == CellOr(row, IndexOf(headerRow, FirstnameCol))
        lastname == CellOr(row, IndexOf(headerRow, LastnameCol))
        bib == CellOr(row, IndexOf(headerRow, BibCol))
        climberName == Trim(toString(firstname) \o <<" ">> \o toString(lastname))
        tickets == ticketColumns(headerRow)
        j == FirstTicket(row, tickets)
        ticketValue == toString(CellOr(row, tickets[j].index))
        sessionMatch == MatchDigits(ticketValue)
        session == IF sessionMatch # <<>> THEN sessionMatch ELSE ticketValue
    IN  IF firstname = <<>> /\ lastname = <<>> THEN acc
        ELSE IF j # 0 THEN
            IF session = <<>> \/ Trim(session) = <<>>
            THEN [acc EXCEPT !.skippedClimbers = Append(@,
                    [name |-> climberName, category |-> tickets[j].category,
                     reason |-> "No session information found"])]
            ELSE [acc EXCEPT !.validClimbers = Append(@,
                    [firstname |-> firstname, lastname |-> lastname, name |-> climberName,
                     bib |-> bib, category |-> tickets[j].category, session |-> session])]
        ELSE IF climberName # <<>>
            THEN [acc EXCEPT !.skippedClimbers = Append(@,
                    [name |-> climberName, category |-> Null,
                     reason |-> "No registration/ticket information found"])]
            ELSE acc

\* The comparator of the final sort: session, then category, then last name.
ClimberCompare(a, b) ==
    FirstNonZero(OrZero(ParseInt(a.session)) - OrZero(ParseInt(b.session)),
                 FirstNonZero(compareCategoriesRedpoint(a.category, b.category),
                              LocaleCompare(a.lastname, b.lastname)))

\* The comparator of the rosters: category, then last name.
RosterCompare(a, b) ==
    FirstNonZero(compareCategoriesRedpoint(a.category, b.category),
                 LocaleCompare(a.lastname, b.lastname))

\* The comparator of the session keys: parseInt(a) - parseInt(b), which is
\* NaN when either key has no leading number; sort reads NaN as +0.
Minus(x, y) == IF x.nan \/ y.nan THEN 0 ELSE x.val - y.val

SessionKeyCompare(a, b) == Minus(ParseInt(a), ParseInt(b))

CompareBy(kind, a, b) ==
    CASE kind = "climber" -> ClimberCompare(a, b)
      [] kind = "roster"  -> RosterCompare(a, b)
      [] kind = "session" -> SessionKeyCompare(a, b)
      [] kind = "index"   -> ParseInt(a).val - ParseInt(b).val

\* Array.prototype.sort(compare) as the V8 runtime computes it for an array
\* shorter than 64 elements: the initial run is found (a strictly descending
\* one is reversed), then every later element is put into the sorted prefix
\* by binary insertion.  The result is the stable sort when the comparator
\* is consistent.
RunEnds(descending, order) == (descending /\ order >= 0) \/ (~descending /\ order < 0)

RECURSIVE ExtendRun(_, _, _, _)
ExtendRun(a, idx, descending, kind) ==
    IF idx > Len(a) THEN Len(a)
    ELSE IF RunEnds(descending, CompareBy(kind, a[idx], a[idx - 1])) THEN idx - 1
    ELSE ExtendRun(a, idx + 1, descending, kind)

\* The run a[1..n], reversed in place when it descends.
MakeRun(a, descending, n) ==
    [run |-> n,
     arr |-> IF descending
             THEN [k \in 1..Len(a) |-> IF k <= n THEN a[n + 1 - k] ELSE a[k]]
             ELSE a]

RunFrom(a, descending, kind) == MakeRun(a, descending, ExtendRun(a, 3, descending, kind))

CountAndMakeRun(a, kind) ==
    IF Len(a) < 2 THEN [run |-> Len(a), arr |-> a]
    ELSE RunFrom(a, CompareBy(kind, a[2], a[1]) < 0, kind)

Middle(left, right) == left + ((right - left) \div 2)

\* The 0-based position in a[left..right) at which pivot is inserted.
RECURSIVE BinarySearch(_, _, _, _, _)
BinarySearch(a, pivot, left, right, kind) ==
    IF left >= right THEN left
    ELSE IF CompareBy(kind, pivot, a[Middle(left, right) + 1]) < 0
         THEN BinarySearch(a, pivot, left, Middle(left, right), kind)
         ELSE BinarySearch(a, pivot, Middle(left, right) + 1, right, kind)

\* a[start] moved down to the 0-based position at of the sorted prefix.
InsertAt(a, start, at) ==
    [k \in 1..Len(a) |->
        IF k <= at THEN a[k]
        ELSE IF k = at + 1 THEN a[start + 1]
        ELSE IF k <= start + 1 THEN a[k - 1]
        ELSE a[k]]

RECURSIVE BinaryInsertionSort(_, _, _)
BinaryInsertionSort(a, start, kind) ==
    IF start >= Len(a) THEN a
    ELSE BinaryInsertionSort(InsertAt(a, start, BinarySearch(a, a[start + 1], 0, start, kind)),
                             start + 1, kind)

SortMade(made, kind) == BinaryInsertionSort(made.arr, made.run, kind)

SortBy(s, kind) == SortMade(CountAndMakeRun(s, kind), kind)

SortClimbers(acc) == [acc EXCEPT !.validClimbers = SortBy(@, "climber")]

EmptyParse == [validClimbers |-> <<>>, skippedClimbers |-> <<>>]

RECURSIVE ParseRows(_, _, _, _)
ParseRows(acc, headerRow, data, i) ==
    IF i > Len(data) THEN acc
    ELSE ParseRows(ParseRow(acc, headerRow, data[i]), headerRow, data, i + 1)

parseClimberData(data) ==
    IF Len(data) < 2 THEN EmptyParse
    ELSE SortClimbers(ParseRows(EmptyParse, ResolveRow(data[1]), data, 2))

----------------------------------------------------------------------------
(* createRedpointScorecards                                                *)

Uppers == <<"A", "B", "C", "D", "E", "F", "G", "H", "I", "J", "K", "L", "M",
            "N", "O", "P", "Q", "R", "S", "T", "U", "V", "W", "X", "Y", "Z">>
Lowers == <<"a", "b", "c", "d", "e", "f", "g", "h", "i", "j", "k", "l", "m",
            "n", "o", "p", "q", "r", "s", "t", "u", "v", "w", "x", "y", "z">>

\* String.prototype.toLowerCase
ToLowerCase(s) ==
    [k \in 1..Len(s) |->
        IF \E j \in 1..26 : Uppers[j] = s[k]
        THEN Lowers[CHOOSE j \in 1..26 : Uppers[j] = s[k]]
        ELSE s[k]]

BoulderWord == <<"b", "o", "u", "l", "d", "e", "r">>
RopeWord == <<"r", "o", "p", "e">>

\* eventType.toString().toLowerCase().trim()
EventTypeLower(eventType) == Trim(ToLowerCase(eventType))

climbPrefix(eventType) ==
    IF EventTypeLower(eventType) = RopeWord
    THEN <<"C", "l", "i", "m", "b">>
    ELSE <<"B", "o", "u", "l", "d", "e", "r">>

MAX_ATTEMPTS == 10
CARD_WIDTH_COLS == 1 + MAX_ATTEMPTS

\* A cell value: a string or a number.
TextCell(s) == [isNum |-> FALSE, text |-> s, num |-> 0]
NumCell(n) == [isNum |-> TRUE, text |-> <<>>, num |-> n]

\* The cells w written over the cells g.
Written(g, w) ==
    [x \in DOMAIN g \cup DOMAIN w |-> IF x \in DOMAIN w THEN w[x] ELSE g[x]]

LabelCompetition == <<"C", "o", "m", "p", "e", "t", "i", "t", "i", "o", "n", ":">>
LabelName == <<"N", "a", "m", "e", ":">>
LabelCategory == <<"C", "a", "t", "e", "g", "o", "r", "y", ":">>
LabelSession == <<"S", "e", "s", "s", "i", "o", "n", ":">>
LabelBib == <<"B", "i", "b", " ", "#", ":">>
LabelScoring == <<"S", "c", "o", "r", "i", "n", "g", ":">>

\* The competition, name and category/session/bib rows, from row r.
HeaderWrites(r, climber, eventName) ==
    ( <<r, 1>> :> TextCell(LabelCompetition)) @@ (<<r, 2>> :> TextCell(eventName))
    @@ (<<r + 1, 1>> :> TextCell(LabelName)) @@ (<<r + 1, 2>> :> TextCell(climber.name))
    @@ (<<r + 2, 1>> :> TextCell(LabelCategory)) @@ (<<r + 2, 2>> :> TextCell(climber.category))
    @@ (<<r + 2, 4>> :> TextCell(LabelSession)) @@ (<<r + 2, 5>> :> TextCell(climber.session))
    @@ (<<r + 2, 7>> :> TextCell(LabelBib)) @@ (<<r + 2, 8>> :> TextCell(climber.bib))

\* `${climbPrefix}: ${climbNumber}`
ClimbLabel(prefix, climbNumber) == prefix \o <<":", " ">> \o climbNumber

\* A variant without the cap of the configured climb count.
ActualNumClimbs_NoCap(categoryClimbs, numClimbs) == Len(categoryClimbs)

\* Math.min(categoryClimbs.length, parseInt(numClimbs)); numClimbs is a
\* positive whole number here, which parseInt returns unchanged.
ActualNumClimbs(categoryClimbs, numClimbs) ==
    IF Len(categoryClimbs) < numClimbs THEN Len(categoryClimbs) ELSE numClimbs

\* for (attemptNum = 1; attemptNum <= numAttempts; attemptNum++)
AttemptNumbers(numAttempts) == 1..numAttempts

\* The climb rows rows..: the label in column 1, the attempt markers after it.
GridWrites(gridStartRow, categoryClimbs, shown, prefix, numAttempts) ==
    [x \in { <<gridStartRow + k - 1, c>> :
                k \in 1..shown, c \in {1} \cup { 1 + a : a \in AttemptNumbers(numAttempts) } } |->
        IF x[2] = 1
        THEN TextCell(ClimbLabel(prefix, categoryClimbs[x[1] - gridStartRow + 1]))
        ELSE NumCell(x[2] - 1)]

IsOddCard(cardCount) == cardCount % 2 = 0

\* successfulCards < climbers.length - skippedClimbers.length - 1
MoreCardsExpected(cardCount, nClimbers, nSkipped) == cardCount < nClimbers - nSkipped - 1

\* The places where laying out a card can fail: nowhere, at the first sheet
\* call, at the first attempt cell of the first climb row, at the notes cell.
FailurePoints == {"none", "header", "grid", "notes"}

FailureMessage == "Service error"

\* `Error: ${error.message}`
ErrorReason(message) == CASE message = "Service error" -> "Error: Service error"

SkipEntry(climber, reason) ==
    [name |-> climber.name, category |-> climber.category, reason |-> reason]

\* A variant in which the skipped climber counts as a card.
SkipNoClimbs_Counted(st, climber) ==
    [st EXCEPT !.skippedClimbers =
                   Append(@, SkipEntry(climber, "No climbs assigned to category")),
               !.successfulCards = @ + 1]

\* The branch of a category without climbs: one skip reason, then continue.
SkipNoClimbs(st, climber) ==
    [st EXCEPT !.skippedClimbers =
                   Append(@, SkipEntry(climber, "No climbs assigned to category"))]

\* A variant without the catch block: the exception leaves the function.
CatchError_Propagate(st, climber, row, cells) ==
    [st EXCEPT !.currentRow = row, !.grid = Written(@, cells), !.thrown = TRUE]

\* The catch block, entered with the row cursor at row and the cells written
\* before the failure: one skip reason carrying the message, and the loop
\* goes on.
CatchError(st, climber, row, cells) ==
    [st EXCEPT !.currentRow = row,
               !.grid = Written(@, cells),
               !.skippedClimbers = Append(@, SkipEntry(climber, ErrorReason(FailureMessage)))]

\* One iteration of the loop over climbers: st holds currentRow,
\* successfulCards, skippedClimbers, grid and the history of cards; thrown is
\* set when the iteration lets an exception out of the function.
LayoutClimber(st, i, climber, nClimbers, cfg, assignments, fail) ==
    LET cardStartRow == st.currentRow
        isOddCard == IsOddCard(st.successfulCards)
        categoryClimbs == ClimbsOf(assignments, climber.category)
        actualNumClimbs == ActualNumClimbs(categoryClimbs, cfg.numClimbs)
        prefix == climbPrefix(cfg.eventType)
        gridStartRow == cardStartRow + 4
        afterGrid == gridStartRow + actualNumClimbs
        hasNotes == cfg.scoringNotes # <<>>
        afterNotes == IF hasNotes THEN afterGrid + 2 ELSE afterGrid
        rowsUsedCount == 1 + 2 + 2 + 1 + (actualNumClimbs * 2) + (IF hasNotes THEN 2 ELSE 0)
        paddingNeeded == (IF isOddCard THEN 33 ELSE 34) - rowsUsedCount
        padded == afterNotes + (IF paddingNeeded > 0 THEN paddingNeeded ELSE 0)
        gap == ~isOddCard
               /\ MoreCardsExpected(st.successfulCards, nClimbers, Len(st.skippedClimbers))
        endRow == IF isOddCard THEN padded + 1 ELSE IF gap THEN padded + 2 ELSE padded
        header == HeaderWrites(cardStartRow, climber, cfg.eventName)
        climbRows == GridWrites(gridStartRow, categoryClimbs, actualNumClimbs, prefix,
                                cfg.numAttempts)
        notes == IF hasNotes
                 THEN (<<afterGrid + 1, 1>> :> TextCell(LabelScoring))
                      @@ (<<afterGrid + 1, 2>> :> TextCell(cfg.scoringNotes))
                 ELSE <<>>
        caught(row, cells) == CatchError(st, climber, row, cells)
    IN  IF categoryClimbs = <<>>
        THEN SkipNoClimbs(st, climber)
        ELSE CASE fail = "header" -> caught(cardStartRow, <<>>)
               [] fail = "grid" ->
                    caught(gridStartRow,
                           header @@ (<<gridStartRow, 1>> :>
                                        TextCell(ClimbLabel(prefix, categoryClimbs[1]))))
               [] fail = "notes" ->
                    caught(afterGrid + 1,
                           header @@ climbRows @@ (<<afterGrid + 1, 1>> :> TextCell(LabelScoring)))
               [] OTHER ->
                    [st EXCEPT !.currentRow = endRow,
                               !.successfulCards = @ + 1,
                               !.grid = Written(@, header @@ climbRows @@ notes),
                               !.cards = Append(@,
                                   [index |-> i, startRow |-> cardStartRow,
                                    gridStartRow |-> gridStartRow,
                                    climbRows |-> actualNumClimbs,
                                    rowsUsed |-> rowsUsedCount,
                                    odd |-> isOddCard, gapAdded |-> gap,
                                    endRow |-> endRow])]

\* Whether the failure point lies on the path of this climber's card.
CanFailAt(fail, climber, cfg, assignments) ==
    \/ fail = "none"
    \/ /\ ClimbsOf(assignments, climber.category) # <<>>
       /\ fail \in {"header", "grid"} \/ (fail = "notes" /\ cfg.scoringNotes # <<>>)

LayoutStart ==
    [currentRow |-> 1, successfulCards |-> 0, skippedClimbers |-> <<>>,
     grid |-> <<>>, cards |-> <<>>, thrown |-> FALSE]

RECURSIVE LayoutFrom(_, _, _, _, _, _)
LayoutFrom(st, i, list, cfg, assignments, fails) ==
    IF i > Len(list) \/ st.thrown THEN st
    ELSE LayoutFrom(LayoutClimber(st, i, list[i], Len(list), cfg, assignments, fails[i]),
                    i + 1, list, cfg, assignments, fails)

\* The whole function: the loop over the climbers, with the failure (or
\* "none") that each climber's card meets.
createRedpointScorecards(list, cfg, assignments, fails) ==
    LayoutFrom(LayoutStart, 1, list, cfg, assignments, fails)

----------------------------------------------------------------------------
(* The spreadsheet and createCheckInLists                                  *)

SheetName(kind, session) == [kind |-> kind, session |-> session]

SummarySheet == SheetName("Summary", <<>>)
ClimbsSheet == SheetName("Climbs", <<>>)
RegistrationSheet == SheetName("Registration", <<>>)
QueueCardsSheet == SheetName("Queue Cards", <<>>)

\* `Session ${session} Check-in List`
CheckInSheet(session) == SheetName("Check-in List", session)

\* spreadsheet.deleteSheet(sheet)
DeleteSheet(ss, name) == [n \in DOMAIN ss \ {name} |-> ss[n]]

\* spreadsheet.insertSheet(name), then the values written to the new sheet.
InsertSheet(ss, name, contents) ==
    [n \in DOMAIN ss \cup {name} |-> IF n = name THEN contents ELSE ss[n]]

\* The session keys in the order in which forEach first meets them.
InsertionKeys(list) ==
    LET firsts == SelectSeq([k \in 1..Len(list) |-> k],
                            LAMBDA k : \A j \in 1..(k - 1) : list[j].session # list[k].session)
    IN  [k \in 1..Len(firsts) |-> list[firsts[k]].session]

\* A property key that is a canonical array index: decimal digits without a
\* leading zero, below 2^32 - 1.  The keys of the model have at most 9
\* digits, all of which lie below that limit.
IsArrayIndex(key) ==
    /\ key # <<>>
    /\ \A k \in 1..Len(key) : IsDigit(key[k])
    /\ Len(key) = 1 \/ key[1] # "0"
    /\ Len(key) <= 9

\* Object.keys(sessionGroups): the array-index keys in ascending numeric
\* order, then the other keys in insertion order.
ObjectKeys(keys) ==
    SortBy(SelectSeq(keys, IsArrayIndex), "index")
        \o SelectSeq(keys, LAMBDA key : ~IsArrayIndex(key))

\* Object.keys(sessionGroups).sort((a, b) => parseInt(a) - parseInt(b))
SortedSessions(list) == SortBy(ObjectKeys(InsertionKeys(list)), "session")

RosterHeader ==
    << <<"N", "a", "m", "e">>, <<"C", "a", "t", "e", "g", "o", "r", "y">>, <<"S", "e", "s", "s", "i", "o", "n">>, <<"B", "i", "b", " ", "#">>, <<"C", "h", "e", "c", "k", "e", "d", " ", "I", "n">> >>

\* The values of one roster: the header, then one row per climber.
RosterValues(sessionClimbers) ==
    <<RosterHeader>>
        \o [k \in 1..Len(sessionClimbers) |->
              << sessionClimbers[k].name, sessionClimbers[k].category,
                 sessionClimbers[k].session, sessionClimbers[k].bib >>]

\* if (existingSheet) spreadsheet.deleteSheet(existingSheet)
ClearSheet(ss, sheetName) == IF sheetName \in DOMAIN ss THEN DeleteSheet(ss, sheetName) ELSE ss

\* One iteration of sessions.forEach: the sheet of the session is deleted if
\* it exists, inserted anew and filled with the header and the session's
\* climbers sorted by category and last name; column 5 stays empty.
CheckInSession(ss, session, list) ==
    InsertSheet(ClearSheet(ss, CheckInSheet(session)), CheckInSheet(session),
                RosterValues(SortBy(SelectSeq(list, LAMBDA c : c.session = session), "roster")))

RECURSIVE CheckInSessions(_, _, _)
CheckInSessions(ss, sessions, list) ==
    IF sessions = <<>> THEN ss
    ELSE CheckInSessions(CheckInSession(ss, Head(sessions), list), Tail(sessions), list)

createCheckInLists(ss, list) == CheckInSessions(ss, SortedSessions(list), list)

----------------------------------------------------------------------------
(* Registration sheets used as inputs                                      *)

MaxRows == 2

StatusSuffix == <<" ">> \o StatusWord

\* firstname, lastname, bib, then per category a status column and a ticket
\* column; the second status header ends like a ticket header.
HeaderCells ==
    << FirstnameCol, LastnameCol, BibCol,
       F12 \o BoulderTicket \o StatusSuffix, F12 \o BoulderTicket,
       M10 \o StatusSuffix \o RopeTicket, M10 \o RopeTicket >>

RECURSIVE Join(_, _)
Join(cells, sep) ==
    IF cells = <<>> THEN <<>>
    ELSE IF Len(cells) = 1 THEN toString(cells[1])
    ELSE toString(cells[1]) \o <<sep>> \o Join(Tail(cells), sep)

\* The row as an export packs it: every cell joined into the first one.
Packed(cells) == [k \in 1..Len(cells) |-> IF k = 1 THEN Join(cells, Semicolon) ELSE <<>>]

Ok == <<"o", "k">>

RegRow(fn, ln, bib, t1, t2) == <<fn, ln, bib, Ok, t1, Ok, t2>>

\* First and last names: both empty, white space, the number 0, and names.
NamePairs ==
    { <<<<>>, <<>>>>, <<<<" ">>, <<>>>>, <<NumberCell(<<"0">>), <<>>>>,
      <<<<"a">>, <<"b">>>>, <<<<>>, <<"a", "b">>>> }

\* The cells of the two ticket columns: empty, white space, text with and
\* without digits, and the numbers 1 and 0.
TicketPairs ==
    { <<<<>>, <<>>>>, <<<<" ">>, <<" ">>>>, <<NumberCell(<<"1">>), <<"s", "2">>>>,
      <<<<" ">>, <<"x">>>>, <<<<"S", " ", "1", "0", " ", "a", "m">>, <<>>>>,
      <<NumberCell(<<"0">>), <<"2">>>> }

PlainRows == { RegRow(n[1], n[2], <<"7">>, t[1], t[2]) : n \in NamePairs, t \in TicketPairs }

PackedRows ==
    { Packed(RegRow(<<"d">>, <<"a">>, <<>>, t[1], t[2])) :
        t \in { p \in TicketPairs : p[1] # <<" ">> } }

RegRows == PlainRows \cup PackedRows

Headers == { HeaderCells, Packed(HeaderCells) }

SeqsUpTo(S, n) == UNION { [1..k -> S] : k \in 0..n }

RegSheets == { <<h>> \o rows : h \in Headers, rows \in SeqsUpTo(RegRows, MaxRows) }

----------------------------------------------------------------------------
(* Climbs sheets, configurations and climber lists used as inputs          *)

MaxClimbers == 3

ClimbsHeader == <<<<"C", "a", "t", "e", "g", "o", "r", "y">>, <<"C", "l", "i", "m", "b", "s">>>>

ClimbSheets ==
    { <<ClimbsHeader, <<F12, <<"1", "0", "1", ",", " ", "1", "0", "2", ",", " ", "1", "0", "3">>>>>>,
      <<ClimbsHeader, <<F12, <<"1", "0", "1", ",", " ", "1", "0", "2", ",", " ", "1", "0", "3">>>>, <<M10, <<"1", ",", "2", ",", "3", ",", "4", ",", "5", ",", "6", ",", "7", ",", "8", ",", "9", ",", "1", ",", "2", ",", "3", ",", "4", ",", "5">>>>>>,
      <<ClimbsHeader, <<<<" ">> \o M10 \o <<" ">>, <<" ", "7", ",", ",", "8", " ">>>>, <<F12, <<>>>>>>,
      <<ClimbsHeader, <<F12, <<"1", "0", "1">>>>, <<F12, <<"5", ",", " ", "6">>>>,
                      <<M10, NumberCell(<<"7">>)>>>> }

EventName == <<"M", "R", "P">>

ConfigOf(numClimbs, numAttempts, eventType, scoringNotes) ==
    [eventName |-> EventName, numClimbs |-> numClimbs, numAttempts |-> numAttempts,
     eventType |-> eventType, scoringNotes |-> scoringNotes]

\* Configurations that pass the checks of generateScorecards.
Configs ==
    { ConfigOf(2, 3, <<"b", "o", "u", "l", "d", "e", "r">>, <<>>),
      ConfigOf(14, 11, <<" ", "R", "o", "p", "e">>, <<"t", "o", "p", " ", "3">>),
      ConfigOf(2, 10, <<"B", "o", "u", "l", "d", "e", "r">>, <<"t", "o", "p", " ", "3">>),
      ConfigOf(3, 12, <<"r", "o", "p", "e">>, <<>>) }

\* Registration rows of climbers with a ticket: name, ticket column, session.
LayoutRows ==
    { RegRow(<<"a">>, <<"b">>, <<"7">>, <<"1">>, <<>>),
      RegRow(<<"c">>, <<"d">>, <<"8">>, <<>>, <<"1">>),
      RegRow(<<"d">>, <<"a">>, <<>>, <<>>, <<"S", "e", "s", "s", " ", "2">>) }

LayoutRegSheets == { <<HeaderCells>> \o rows : rows \in SeqsUpTo(LayoutRows, MaxClimbers) }

\* Registration rows whose sessions are numbers, a number with a leading
\* zero, and a ticket text without digits.
RosterRows ==
    { RegRow(<<"a">>, <<"b">>, <<"7">>, <<"2">>, <<>>),
      RegRow(<<"c">>, <<"d">>, <<"8">>, <<>>, <<"x">>),
      RegRow(<<"d">>, <<"a">>, <<>>, <<>>, <<"0", "1">>),
      RegRow(<<"b">>, <<"c">>, <<"9">>, <<"1">>, <<>>),
      RegRow(<<"b">>, <<"a">>, <<"5">>, <<>>, <<"2">>) }

RosterRegSheets == { <<HeaderCells>> \o rows : rows \in SeqsUpTo(RosterRows, MaxClimbers) }

\* A roster left by an earlier run.
StaleRoster == <<RosterHeader, << <<"d">>, M10, <<"2">>, <<>> >> >>

\* The Summary sheets of the runs: two that pass the checks, one without an
\* event name, one without a climb count, one of an unknown event kind.
SummaryConfigs ==
    { ConfigOf(2, 3, <<"b", "o", "u", "l", "d", "e", "r">>, <<>>),
      ConfigOf(2, 11, <<" ", "R", "o", "p", "e">>, <<"t", "o", "p", " ", "3">>),
      [ConfigOf(2, 3, <<"b", "o", "u", "l", "d", "e", "r">>, <<>>) EXCEPT !.eventName = <<>>],
      ConfigOf(0, 3, <<"b", "o", "u", "l", "d", "e", "r">>, <<>>),
      ConfigOf(2, 3, <<"l", "e", "a", "d">>, <<>>) }

RunClimbSheets ==
    { <<ClimbsHeader, <<F12, <<"1", "0", "1", ",", " ", "1", "0", "2", ",", " ", "1", "0", "3">>>>>>,
      <<ClimbsHeader, <<F12, <<"1", "0", "1", ",", " ", "1", "0", "2", ",", " ", "1", "0", "3">>>>, <<M10, <<"7", ",", "8">>>>>> }

\* The Registration sheets of the runs: the header alone, a named row
\* without a ticket, and sheets with one or two climbers.
RunRegSheets ==
    { <<HeaderCells>>,
      <<HeaderCells, RegRow(<<"a">>, <<"b">>, <<"7">>, <<>>, <<" ">>)>>,
      <<HeaderCells, RegRow(<<"a">>, <<"b">>, <<"7">>, <<"1">>, <<>>)>>,
      <<HeaderCells, RegRow(<<"c">>, <<"d">>, <<"8">>, <<>>, <<"2">>)>>,
      <<HeaderCells, RegRow(<<"a">>, <<"b">>, <<"7">>, <<"1">>, <<>>),
                     RegRow(<<"c">>, <<"d">>, <<"8">>, <<>>, <<"2">>)>> }

MaxRuns == 2

\* The failures a run of generateScorecards meets while it lays out cards:
\* none, or one at the first climber.
RunFailPlans(n) ==
    { [k \in 1..n |-> IF k = 1 THEN f ELSE "none"] : f \in FailurePoints }

----------------------------------------------------------------------------
(* Idle values of the variables a specification does not use               *)

CmpIdle == catA = <<>> /\ catB = <<>> /\ cmpResult = 0

ParseIdle == regData = <<>> /\ parseI = 0 /\ parsed = EmptyParse

LayIdle ==
    /\ climbers = <<>> /\ climbAssignments = <<>> /\ config = ConfigOf(0, 0, <<>>, <<>>)
    /\ layI = 0 /\ currentRow = 0 /\ successfulCards = 0 /\ laySkipped = <<>>
    /\ grid = <<>> /\ cards = <<>> /\ failLog = <<>>

SheetsIdle == sheets = <<>>

RosterIdle == sessionsTodo = <<>> /\ rosterLog = <<>>

NoAlert == [kind |-> "", count |-> 0, skipped |-> <<>>]

RunIdle == sheetsAtStart = <<>> /\ alert = NoAlert /\ runs = 0

----------------------------------------------------------------------------
(* Specification of the comparator alone                                   *)

InitCompare ==
    /\ pc = "compare"
    /\ catA \in Categories
    /\ catB \in Categories
    /\ cmpResult = 0
    /\ ParseIdle
    /\ LayIdle
    /\ SheetsIdle /\ RosterIdle /\ RunIdle

Compare ==
    /\ pc = "compare"
    /\ cmpResult' = compareCategoriesRedpoint(catA, catB)
    /\ pc' = "compared"
    /\ UNCHANGED <<catA, catB, parseVars, layInputs, layVars, sheets, rosterVars, runVars>>

NextCompare == Compare

SpecCompare == InitCompare /\ [][NextCompare]_vars

----------------------------------------------------------------------------
(* Specification of parseClimberData, one data row per step                *)

InitParse ==
    /\ pc = "parse"
    /\ regData \in RegSheets
    /\ parseI = 2
    /\ parsed = EmptyParse
    /\ CmpIdle
    /\ LayIdle
    /\ SheetsIdle /\ RosterIdle /\ RunIdle

\* if (data.length < 2) return the empty lists
ParseTooShort ==
    /\ pc = "parse"
    /\ Len(regData) < 2
    /\ pc' = "parsed"
    /\ UNCHANGED <<regData, parseI, parsed, cmpVars, layInputs, layVars, sheets, rosterVars, runVars>>

ParseRowStep ==
    /\ pc = "parse"
    /\ Len(regData) >= 2
    /\ parseI <= Len(regData)
    /\ parsed' = ParseRow(parsed, ResolveRow(regData[1]), regData[parseI])
    /\ parseI' = parseI + 1
    /\ UNCHANGED <<pc, regData, cmpVars, layInputs, layVars, sheets, rosterVars, runVars>>

ParseSort ==
    /\ pc = "parse"
    /\ Len(regData) >= 2
    /\ parseI > Len(regData)
    /\ parsed' = SortClimbers(parsed)
    /\ pc' = "parsed"
    /\ UNCHANGED <<regData, parseI, cmpVars, layInputs, layVars, sheets, rosterVars, runVars>>

NextParse == ParseTooShort \/ ParseRowStep \/ ParseSort

SpecParse == InitParse /\ [][NextParse]_vars

----------------------------------------------------------------------------
(* Specification of createRedpointScorecards, one climber per step         *)

InitLayout ==
    /\ pc = "layout"
    /\ \E reg \in LayoutRegSheets : climbers = parseClimberData(reg).validClimbers
    /\ Len(climbers) > 0
    /\ \E sheet \in ClimbSheets : climbAssignments = parseClimbAssignments(sheet)
    /\ config \in Configs
    /\ layI = 1
    /\ currentRow = LayoutStart.currentRow
    /\ successfulCards = LayoutStart.successfulCards
    /\ laySkipped = LayoutStart.skippedClimbers
    /\ grid = LayoutStart.grid
    /\ cards = LayoutStart.cards
    /\ failLog = <<>>
    /\ CmpIdle
    /\ ParseIdle
    /\ SheetsIdle /\ RosterIdle /\ RunIdle

LayoutState ==
    [currentRow |-> currentRow, successfulCards |-> successfulCards,
     skippedClimbers |-> laySkipped, grid |-> grid, cards |-> cards, thrown |-> FALSE]

LayoutStep ==
    /\ pc = "layout"
    /\ layI <= Len(climbers)
    /\ \E fail \in FailurePoints :
        /\ CanFailAt(fail, climbers[layI], config, climbAssignments)
        /\ LET st == LayoutClimber(LayoutState, layI, climbers[layI], Len(climbers),
                                   config, climbAssignments, fail)
           IN  /\ currentRow' = st.currentRow
               /\ successfulCards' = st.successfulCards
               /\ laySkipped' = st.skippedClimbers
               /\ grid' = st.grid
               /\ cards' = st.cards
               /\ pc' = IF st.thrown THEN "thrown" ELSE "layout"
        /\ failLog' = Append(failLog, fail)
    /\ layI' = layI + 1
    /\ UNCHANGED <<cmpVars, parseVars, layInputs, sheets, rosterVars, runVars>>

LayoutReturn ==
    /\ pc = "layout"
    /\ layI > Len(climbers)
    /\ pc' = "laidOut"
    /\ UNCHANGED <<cmpVars, parseVars, layInputs, layVars, sheets, rosterVars, runVars>>

NextLayout == LayoutStep \/ LayoutReturn

SpecLayout == InitLayout /\ [][NextLayout]_vars

----------------------------------------------------------------------------
(* Specification of createCheckInLists, one session per step               *)

InitRoster ==
    /\ pc = "checkin"
    /\ \E reg \in RosterRegSheets :
          /\ climbers = parseClimberData(reg).validClimbers
          /\ \E stale \in SUBSET {CheckInSheet(<<"2">>)} :
                sheets = [n \in {RegistrationSheet} \cup stale |->
                            IF n = RegistrationSheet THEN reg ELSE StaleRoster]
    /\ Len(climbers) > 0
    /\ climbAssignments = <<>> /\ config = ConfigOf(0, 0, <<>>, <<>>)
    /\ layI = 0 /\ currentRow = 0 /\ successfulCards = 0 /\ laySkipped = <<>>
    /\ grid = <<>> /\ cards = <<>> /\ failLog = <<>>
    /\ CmpIdle /\ ParseIdle /\ RosterIdle /\ RunIdle

\* The grouping by session and the sort of the session keys.
CheckInGroup ==
    /\ pc = "checkin"
    /\ sessionsTodo' = SortedSessions(climbers)
    /\ pc' = "checkinLoop"
    /\ UNCHANGED <<cmpVars, parseVars, layInputs, layVars, sheets, rosterLog, runVars>>

CheckInStep ==
    /\ pc = "checkinLoop"
    /\ sessionsTodo # <<>>
    /\ sheets' = CheckInSession(sheets, Head(sessionsTodo), climbers)
    /\ rosterLog' = Append(rosterLog, Head(sessionsTodo))
    /\ sessionsTodo' = Tail(sessionsTodo)
    /\ UNCHANGED <<pc, cmpVars, parseVars, layInputs, layVars, runVars>>

CheckInReturn ==
    /\ pc = "checkinLoop"
    /\ sessionsTodo = <<>>
    /\ pc' = "checkedIn"
    /\ UNCHANGED <<cmpVars, parseVars, layInputs, layVars, sheets, rosterVars, runVars>>

NextRoster == CheckInGroup \/ CheckInStep \/ CheckInReturn

SpecRoster == InitRoster /\ [][NextRoster]_vars

----------------------------------------------------------------------------
(* Specification of generateScorecards, run from the menu; between runs    *)
(* the operator may upload another registration export                     *)

\* The sheets of the spreadsheet before the first run: any of Summary,
\* Climbs and Registration may be missing.
Init ==
    /\ pc = "idle"
    /\ \E summary \in SUBSET SummaryConfigs, climbs \in SUBSET RunClimbSheets,
          reg \in SUBSET RunRegSheets :
          /\ Cardinality(summary) <= 1 /\ Cardinality(climbs) <= 1 /\ Cardinality(reg) <= 1
          /\ sheets =
                [n \in {SummarySheet : x \in summary} \cup {ClimbsSheet : x \in climbs}
                         \cup {RegistrationSheet : x \in reg} |->
                    CASE n = SummarySheet -> CHOOSE x \in summary : TRUE
                      [] n = ClimbsSheet -> CHOOSE x \in climbs : TRUE
                      [] n = RegistrationSheet -> CHOOSE x \in reg : TRUE]
    /\ sheetsAtStart = sheets
    /\ alert = NoAlert
    /\ runs = 0
    /\ LayIdle
    /\ CmpIdle /\ ParseIdle /\ RosterIdle

ErrorAlert(kind) == [kind |-> kind, count |-> 0, skipped |-> <<>>]

\* The operator chooses Competition Tools > Generate Scorecards.
Invoke ==
    /\ pc = "idle"
    /\ runs < MaxRuns
    /\ pc' = "summary"
    /\ sheetsAtStart' = sheets
    /\ alert' = NoAlert
    /\ climbers' = <<>> /\ climbAssignments' = <<>> /\ config' = ConfigOf(0, 0, <<>>, <<>>)
    /\ parsed' = EmptyParse /\ laySkipped' = <<>> /\ successfulCards' = 0
    /\ rosterLog' = <<>>
    /\ UNCHANGED <<cmpVars, regData, parseI, layI, currentRow, grid, cards, failLog,
                   sheets, sessionsTodo, runs>>

\* The operator replaces the contents of the Registration sheet.
UploadRegistration ==
    /\ pc = "idle"
    /\ runs < MaxRuns
    /\ \E reg \in RunRegSheets :
          /\ (RegistrationSheet \in DOMAIN sheets => sheets[RegistrationSheet] # reg)
          /\ sheets' = InsertSheet(sheets, RegistrationSheet, reg)
    /\ UNCHANGED <<pc, cmpVars, parseVars, layInputs, layVars, rosterVars, runVars>>

Fatal(kind) ==
    /\ alert' = ErrorAlert(kind)
    /\ pc' = "fatal"

RunFrame == UNCHANGED <<cmpVars, regData, parseI, layI, currentRow, grid, cards, failLog,
                        sessionsTodo, sheetsAtStart, runs>>

\* ss.getSheetByName('Summary') and the reads of B1..B5.
GetSummary ==
    /\ pc = "summary"
    /\ IF SummarySheet \notin DOMAIN sheets
       THEN Fatal("Error: Could not find Summary sheet") /\ UNCHANGED config
       ELSE config' = sheets[SummarySheet] /\ pc' = "scalars" /\ UNCHANGED alert
    /\ UNCHANGED <<sheets, climbers, climbAssignments, parsed, laySkipped, successfulCards,
                   rosterLog>>
    /\ RunFrame

\* if (!eventName || !numClimbs || !numAttempts || !eventType)
CheckScalars ==
    /\ pc = "scalars"
    /\ IF config.eventName = <<>> \/ config.numClimbs = 0 \/ config.numAttempts = 0
            \/ config.eventType = <<>>
       THEN Fatal("Error: Please fill in the Summary sheet")
       ELSE pc' = "eventType" /\ UNCHANGED alert
    /\ UNCHANGED <<sheets, layInputs, parsed, laySkipped, successfulCards, rosterLog>>
    /\ RunFrame

CheckEventType ==
    /\ pc = "eventType"
    /\ IF EventTypeLower(config.eventType) # BoulderWord
            /\ EventTypeLower(config.eventType) # RopeWord
       THEN Fatal("Error: Event Type must be boulder or rope")
       ELSE pc' = "climbs" /\ UNCHANGED alert
    /\ UNCHANGED <<sheets, layInputs, parsed, laySkipped, successfulCards, rosterLog>>
    /\ RunFrame

GetClimbs ==
    /\ pc = "climbs"
    /\ IF ClimbsSheet \notin DOMAIN sheets
       THEN Fatal("Error: Could not find Climbs sheet") /\ UNCHANGED climbAssignments
       ELSE /\ climbAssignments' = parseClimbAssignments(sheets[ClimbsSheet])
            /\ pc' = "queue" /\ UNCHANGED alert
    /\ UNCHANGED <<sheets, climbers, config, parsed, laySkipped, successfulCards, rosterLog>>
    /\ RunFrame

\* The Queue Cards sheet is deleted if it exists and inserted empty.
ResetQueueSheet ==
    /\ pc = "queue"
    /\ sheets' = InsertSheet(IF QueueCardsSheet \in DOMAIN sheets
                             THEN DeleteSheet(sheets, QueueCardsSheet) ELSE sheets,
                             QueueCardsSheet, <<>>)
    /\ pc' = "registration"
    /\ UNCHANGED <<alert, layInputs, parsed, laySkipped, successfulCards, rosterLog>>
    /\ RunFrame

GetRegistration ==
    /\ pc = "registration"
    /\ IF RegistrationSheet \notin DOMAIN sheets
       THEN Fatal("Error: Could not find Registration sheet") /\ UNCHANGED <<parsed, climbers>>
       ELSE /\ parsed' = parseClimberData(sheets[RegistrationSheet])
            /\ climbers' = parsed'.validClimbers
            /\ IF Len(parsed'.validClimbers) = 0
               THEN Fatal("No registered climbers found.")
               ELSE pc' = "scorecards" /\ UNCHANGED alert
    /\ UNCHANGED <<sheets, climbAssignments, config, laySkipped, successfulCards, rosterLog>>
    /\ RunFrame

CreateScorecards ==
    /\ pc = "scorecards"
    /\ \E plan \in RunFailPlans(Len(climbers)) :
          /\ \A k \in 1..Len(climbers) :
                CanFailAt(plan[k], climbers[k], config, climbAssignments)
          /\ LET st == createRedpointScorecards(climbers, config, climbAssignments, plan)
             IN  /\ sheets' = InsertSheet(sheets, QueueCardsSheet, st.grid)
                 /\ laySkipped' = st.skippedClimbers
                 /\ successfulCards' = st.successfulCards
                 /\ pc' = IF st.thrown THEN "thrown" ELSE "lists"
    /\ UNCHANGED <<alert, layInputs, parsed, rosterLog>>
    /\ RunFrame

CreateCheckInLists ==
    /\ pc = "lists"
    /\ sheets' = createCheckInLists(sheets, climbers)
    /\ rosterLog' = SortedSessions(climbers)
    /\ pc' = "report"
    /\ UNCHANGED <<alert, layInputs, parsed, laySkipped, successfulCards>>
    /\ RunFrame

Report ==
    /\ pc = "report"
    /\ alert' = [kind |-> "Success!",
                 count |-> Len(climbers) - Len(laySkipped),
                 skipped |-> parsed.skippedClimbers \o laySkipped]
    /\ pc' = "done"
    /\ UNCHANGED <<sheets, layInputs, parsed, laySkipped, successfulCards, rosterLog>>
    /\ RunFrame

\* The run is over; the script is idle again.
Finish ==
    /\ pc \in {"done", "fatal"}
    /\ pc' = "idle"
    /\ runs' = runs + 1
    /\ UNCHANGED <<cmpVars, parseVars, layInputs, layVars, sheets, rosterVars, sheetsAtStart,
                   alert>>

Next ==
    \/ Invoke \/ UploadRegistration
    \/ GetSummary \/ CheckScalars \/ CheckEventType \/ GetClimbs \/ ResetQueueSheet
    \/ GetRegistration \/ CreateScorecards \/ CreateCheckInLists \/ Report \/ Finish

Spec == Init /\ [][Next]_vars

----------------------------------------------------------------------------
(* C1: categories whose genders rank differently under F < M < U <         *)
(* unrecognized compare negative exactly when the first ranks lower,       *)
(* whatever the ages.                                                      *)

ClaimedGenderRank(cat) ==
    CASE CharAt0(cat) = "F" -> 0
      [] CharAt0(cat) = "M" -> 1
      [] CharAt0(cat) = "U" -> 2
      [] OTHER -> 3

\* C1: after a comparison of categories of different claimed gender ranks,
\* the result is negative exactly when the first category ranks lower.
C1_GenderRankOrder ==
    (pc = "compared" /\ ClaimedGenderRank(catA) # ClaimedGenderRank(catB))
        => ((cmpResult < 0) <=> (ClaimedGenderRank(catA) < ClaimedGenderRank(catB)))

----------------------------------------------------------------------------
(* C6: every registration data row has exactly one of three outcomes.      *)

\* The row the step reads and its cells as the sheet holds them.
C6_Row == ResolveRow(regData[parseI])
C6_Cell(k) == IF k <= Len(C6_Row) THEN C6_Row[k] ELSE <<>>
C6_First == C6_Cell(1)
C6_Last == C6_Cell(2)
C6_TicketCells == <<C6_Cell(5), C6_Cell(7)>>
C6_TicketLabels == <<F12, M10>>

\* Empty or white space.
C6_Blank(cell) == \A k \in 1..Len(cell) : cell[k] = " "

\* Empty, or the number 0.
C6_Void(cell) == cell = <<>> \/ cell = NumberCell(<<"0">>)

C6_AllBlank == \A k \in 1..2 : C6_Blank(C6_TicketCells[k])

C6_NoTicket == \A k \in 1..2 : C6_Blank(C6_TicketCells[k]) \/ C6_Void(C6_TicketCells[k])

C6_NoName == (C6_Blank(C6_First) \/ C6_Void(C6_First)) /\ (C6_Blank(C6_Last) \/ C6_Void(C6_Last))

\* The label of the first ticket column whose cell is not blank.
C6_FirstLabel ==
    C6_TicketLabels[CHOOSE k \in 1..2 :
        ~C6_Blank(C6_TicketCells[k]) /\ \A j \in 1..(k - 1) : C6_Blank(C6_TicketCells[j])]

\* The label of the first ticket column whose cell is neither blank nor 0.
C6_FirstTicketLabel ==
    C6_TicketLabels[CHOOSE k \in 1..2 :
        /\ ~(C6_Blank(C6_TicketCells[k]) \/ C6_Void(C6_TicketCells[k]))
        /\ \A j \in 1..(k - 1) : C6_Blank(C6_TicketCells[j]) \/ C6_Void(C6_TicketCells[j])]

C6_Nothing == parsed' = parsed

C6_OneSkip ==
    /\ parsed'.validClimbers = parsed.validClimbers
    /\ Len(parsed'.skippedClimbers) = Len(parsed.skippedClimbers) + 1
    /\ SubSeq(parsed'.skippedClimbers, 1, Len(parsed.skippedClimbers)) = parsed.skippedClimbers
    /\ LET e == parsed'.skippedClimbers[Len(parsed'.skippedClimbers)]
       IN  e.reason = "No registration/ticket information found" /\ e.category = Null

C6_OneValid(label) ==
    /\ parsed'.skippedClimbers = parsed.skippedClimbers
    /\ Len(parsed'.validClimbers) = Len(parsed.validClimbers) + 1
    /\ SubSeq(parsed'.validClimbers, 1, Len(parsed.validClimbers)) = parsed.validClimbers
    /\ parsed'.validClimbers[Len(parsed'.validClimbers)].category = label

C6_IsRowStep == pc = "parse" /\ parseI' = parseI + 1

\* C6 as stated: nothing when both names are empty; one skip entry when the
\* row has a non-empty name and every ticket cell is blank; one valid record
\* of the first non-blank ticket column otherwise.
C6_RowOutcomesAsStated ==
    [][C6_IsRowStep =>
        IF C6_First = <<>> /\ C6_Last = <<>> THEN C6_Nothing
        ELSE IF C6_AllBlank THEN C6_OneSkip
        ELSE C6_OneValid(C6_FirstLabel)]_vars

\* C6 amended: a cell that holds the number 0 counts as empty, and a row
\* whose name is only white space and whose ticket cells are all blank also
\* leaves both lists as they are.
C6_RowOutcomes ==
    [][C6_IsRowStep =>
        IF C6_Void(C6_First) /\ C6_Void(C6_Last) THEN C6_Nothing
        ELSE IF C6_NoTicket THEN (IF C6_NoName THEN C6_Nothing ELSE C6_OneSkip)
        ELSE C6_OneValid(C6_FirstTicketLabel)]_vars

\* A finished parse with a climber of category F12 whose row also held an M10
\* ticket, and a named row without tickets in the skip list.
C6_Witness ==
    /\ pc = "parsed"
    /\ \E k \in 2..Len(regData) :
          /\ ~Falsy(Trim(toString(ResolveRow(regData[k])[5])))
          /\ ~Falsy(Trim(toString(ResolveRow(regData[k])[7])))
    /\ \E k \in 1..Len(parsed.validClimbers) : parsed.validClimbers[k].category = F12
    /\ \E k \in 1..Len(parsed.skippedClimbers) :
          parsed.skippedClimbers[k].reason = "No registration/ticket information found"

----------------------------------------------------------------------------
(* C3: a card has min(assigned climbs, configured climb count) climb rows, *)
(* showing the first identifiers of its category's list, in order,         *)
(* trimmed, and nothing else.                                              *)

C3_Min(a, b) == IF a < b THEN a ELSE b

C3_IsClimbLabel(cell) ==
    /\ ~cell.isNum
    /\ Len(cell.text) >= Len(climbPrefix(config.eventType)) + 2
    /\ SubSeq(cell.text, 1, Len(climbPrefix(config.eventType)) + 2)
         = climbPrefix(config.eventType) \o <<":", " ">>

----------------------------------------------------------------------------
(* C4: a climber of a category without climbs adds one skip reason and     *)
(* leaves the row cursor, the card counter and the grid as they are, so    *)
(* the later cards lie where they would without that climber.              *)

C4_NoClimbs(climber) == ClimbsOf(climbAssignments, climber.category) = <<>>

C4_Kept == SelectSeq([k \in 1..Len(climbers) |-> k], LAMBDA k : ~C4_NoClimbs(climbers[k]))

\* The run over the list without the climbers of categories without climbs.
C4_RunWithout ==
    createRedpointScorecards([k \in 1..Len(C4_Kept) |-> climbers[C4_Kept[k]]], config,
                             climbAssignments, [k \in 1..Len(C4_Kept) |-> failLog[C4_Kept[k]]])

C4_Places(cs, list) ==
    [k \in 1..Len(cs) |-> <<list[cs[k].index], cs[k].startRow, cs[k].odd>>]

\* C4: the step of a climber without climbs appends one skip reason and
\* keeps cursor, counter and grid; the finished run places its cards as the
\* run over the list without those climbers does.
C4_SkipLeavesLayout ==
    /\ [][(pc = "layout" /\ layI' = layI + 1 /\ C4_NoClimbs(climbers[layI]))
            => /\ laySkipped' = Append(laySkipped,
                     [name |-> climbers[layI].name, category |-> climbers[layI].category,
                      reason |-> "No climbs assigned to category"])
               /\ currentRow' = currentRow
               /\ successfulCards' = successfulCards
               /\ grid' = grid]_vars
    /\ [](pc = "laidOut" =>
            C4_Places(cards, climbers)
              = C4_Places(C4_RunWithout.cards, [k \in 1..Len(C4_Kept) |-> climbers[C4_Kept[k]]]))

\* A finished run in which a climber without climbs came before a card.
C4_Witness ==
    /\ pc = "laidOut"
    /\ \E k \in 1..Len(cards) : \E i \in 1..(cards[k].index - 1) :
          C4_NoClimbs(climbers[i]) /\ cards[k].startRow > 1

----------------------------------------------------------------------------
(* C5: a failure while a card is laid out is not propagated: the climber   *)
(* gets one skip reason with the message, the card counter stays, and the  *)
(* later climbers are still processed.                                     *)

\* C5: a step with an injected failure stays in the loop, appends one skip
\* reason with the message and adds no card; no run ends thrown; a finished
\* run has processed every climber.
C5_FailureContained ==
    /\ [][(pc = "layout" /\ Len(failLog') = Len(failLog) + 1
                /\ failLog'[Len(failLog')] # "none")
            => /\ pc' = "layout"
               /\ layI' = layI + 1
               /\ laySkipped' = Append(laySkipped,
                     [name |-> climbers[layI].name, category |-> climbers[layI].category,
                      reason |-> "Error: Service error"])
               /\ successfulCards' = successfulCards
               /\ cards' = cards]_vars
    /\ [](pc # "thrown")
    /\ [](pc = "laidOut" =>
            /\ Len(failLog) = Len(climbers)
            /\ Len(cards) + Len(laySkipped) = Len(climbers)
            /\ successfulCards = Len(cards))

\* A finished run in which a card failed and a later climber got a card.
C5_Witness ==
    /\ pc = "laidOut"
    /\ \E k \in 1..Len(cards) : \E i \in 1..(cards[k].index - 1) : failLog[i] # "none"

----------------------------------------------------------------------------
(* C8: the attempt markers of every climb row are exactly                   *)
(* 1..min(configured attempt count, 10); none lies beyond sheet column 11. *)

C8_MarkersCapped ==
    /\ \A x \in DOMAIN grid : grid[x].isNum => x[2] <= CARD_WIDTH_COLS
    /\ \A k \in 1..Len(cards) : \A j \in 1..cards[k].climbRows :
          { x[2] : x \in { y \in DOMAIN grid :
                             y[1] = cards[k].gridStartRow + j - 1 /\ grid[y].isNum } }
            = { 1 + a : a \in 1..C3_Min(config.numAttempts, MAX_ATTEMPTS) }

----------------------------------------------------------------------------
(* C9: the 2-row gap after the second card of a pair is added if and only  *)
(* if that card is not the last card laid out in the run.                  *)

C9_GapUnlessLastCard ==
    pc = "laidOut" =>
        \A k \in 1..Len(cards) :
            ~cards[k].odd => (cards[k].gapAdded <=> k < Len(cards))

----------------------------------------------------------------------------
(* C2: a run that ends in a fatal error leaves the set of sheets and their *)
(* contents as they were when it began.                                    *)

C2_FatalWritesNothing == pc = "fatal" => sheets = sheetsAtStart

----------------------------------------------------------------------------
(* C7: every valid climber is in exactly one roster, that of their own     *)
(* session; no roster holds a climber of another session; the rosters are  *)
(* produced in ascending order of numeric session value.                   *)

C7_RowOf(c) == <<c.name, c.category, c.session, c.bib>>

C7_Sessions == { climbers[k].session : k \in 1..Len(climbers) }

C7_DataRows(session) == Tail(sheets[CheckInSheet(session)])

\* C7: when createCheckInLists has returned, each session of a climber has
\* one roster holding exactly the climbers of that session, and the rosters
\* were produced in ascending order of numeric session value.
C7_GroupingTotalAndSorted ==
    pc = "checkedIn" =>
        /\ { rosterLog[k] : k \in 1..Len(rosterLog) } = C7_Sessions
        /\ Len(rosterLog) = Cardinality(C7_Sessions)
        /\ \A s \in C7_Sessions :
              /\ CheckInSheet(s) \in DOMAIN sheets
              /\ Len(C7_DataRows(s))
                   = Cardinality({ k \in 1..Len(climbers) : climbers[k].session = s })
              /\ \A k \in 1..Len(C7_DataRows(s)) : C7_DataRows(s)[k][3] = s
              /\ \A k \in 1..Len(climbers) :
                    climbers[k].session = s =>
                        \E j \in 1..Len(C7_DataRows(s)) :
                            C7_DataRows(s)[j] = C7_RowOf(climbers[k])
        /\ \A i \in 1..Len(rosterLog) : \A j \in (i + 1)..Len(rosterLog) :
              (~ParseInt(rosterLog[i]).nan /\ ~ParseInt(rosterLog[j]).nan)
                  => ParseInt(rosterLog[i]).val <= ParseInt(rosterLog[j]).val

----------------------------------------------------------------------------
(* C10: after a successful run the roster sheets present are exactly one   *)
(* per distinct session of the valid climbers of that run.                 *)

C10_RostersOfLastRun ==
    pc = "done" =>
        { n.session : n \in { m \in DOMAIN sheets : m.kind = "Check-in List" } }
            = { climbers[k].session : k \in 1..Len(climbers) }

====
